---- MODULE Spec2Model ----
(***************************************************************************)
(* Stock_Market_Analysis: the Streamlit dashboard (dashboard.py) and its   *)
(* pages.  These state machines are modelled:                              *)
(*                                                                         *)
(*  Spec       the @st.cache_data wrappers around load_stock_data (ttl=30) *)
(*             and load_historical_data (ttl=3600), called by concurrent   *)
(*             sessions, with the dashboard's "Refresh Now" cache clear.   *)
(*  SpecBuild  one run of dashboard.main over one upstream answer:         *)
(*             load_stock_data builds the snapshot frame, main renders it, *)
(*             and nlargest / nsmallest rank it.                           *)
(*  SpecPredict  one run of the prediction page's main: slider, history,   *)
(*             Prophet fit and forecast, plotted view.                     *)
(*  SpecLive   Spec over an upstream whose request may never return, with  *)
(*             fair scheduling of the session threads.                     *)
(*  SpecOverview  one run of the overview page's main: aggregate metrics   *)
(*             and the most active stocks.                                 *)
(*  SpecShare  one snapshot frame, the session that builds it and the      *)
(*             sessions that read, rank and label it.                      *)
(*  SpecRefresh  the dashboard session over its reruns: load, countdown,   *)
(*             rerun, and the "Refresh Now" button.                        *)
(*  SpecViews  the four views and the function caches of their             *)
(*             load_stock_data, with the dashboard's cache clear.          *)
(*  SpecHistory  the runs of the prediction page and the cache of          *)
(*             load_historical_data.                                       *)
(***************************************************************************)
EXTENDS Integers, Sequences, FiniteSets, TLC

(***************************************************************************)
(* Bounds of the model.                                                    *)
(***************************************************************************)
NumCallers == 2
MaxTicks == 3
MaxClears == 1
MaxCalls == 2
NumSymbols == 3
MaxClose == 2
MaxK == 4
MaxDay == 4
MaxVolume == 1
MaxCap == 1
MaxPE == 2
MaxRuns == 2
MaxHistoryTicks == 2

(***************************************************************************)
(* Program constants.                                                      *)
(***************************************************************************)
TTL_SNAPSHOT == 30
TTL_HISTORY == 3600
TopCount == 10
SLIDER_MIN == 30
SLIDER_MAX == 365
SLIDER_STEP == 30
SLIDER_DEFAULT == 365
ACTIVE_COUNT == 10
REFRESH_SECONDS == 30
LOOKBACK_YEARS == 2

(***************************************************************************)
(* The cached calls.  @st.cache_data(ttl=...) wraps the function in        *)
(* Streamlit's CachedFunc: a call reads the function's cache (a TTLCache)  *)
(* and returns a live entry; on a miss it takes the per-key compute lock   *)
(* of that cache object, reads again, and only then invokes the function   *)
(* and writes the result.  st.cache_data.clear() drops the cache objects   *)
(* (and their locks) of all cached functions; later calls create new ones. *)
(* Each browser session runs its script in a thread of its own.            *)
(***************************************************************************)
VARIABLES
    now,      \* the cache timer, in seconds
    ticks,    \* number of clock steps taken so far
    gen,      \* index of the current function-cache objects (one per clear)
    store,    \* store[g][k]: the entry of key k in the cache object of generation g
    lock,     \* lock[g][k]: holder of the compute-value lock of key k, 0 when free
    pc,       \* pc[c]: where session c is inside the cached call
    ckey,     \* ckey[c]: the key session c is calling
    cgen,     \* cgen[c]: the cache object session c fetched at the start of its call
    cid,      \* cid[c]: number of the invocation session c is running, 0 when none
    ret,      \* the latest completed call: who called, for which key, what it got
    calls,    \* calls[k]: how often the wrapped function has been invoked for k
    inUse     \* the cached functions the pages open in this run call

VARIABLES
    bpc,      \* where the run of dashboard.main is: "start" or "done"
    upstream, \* what Yahoo Finance answers in this run
    df,       \* the frame load_stock_data returned
    shown,    \* what main rendered: "none", "error" or "data"
    top,      \* the Top Performers cards, in display order
    bottom,   \* the Bottom Performers cards, in display order
    chart,    \* the rows of the Top 10 vs Bottom 10 bar chart
    rk,       \* the n of the latest ranking request, -1 before the first
    rtop,     \* nlargest(n, 'change') of the frame
    rbottom   \* nsmallest(n, 'change') of the frame

buildVars == <<bpc, upstream, df, shown, top, bottom, chart, rk, rtop, rbottom>>

cacheVars == <<now, ticks, gen, store, lock, pc, ckey, cgen, cid, ret, calls, inUse>>

Callers == 1..NumCallers
Gens == 0..MaxClears

\* One key per cached function and argument tuple.
SnapKey == "load_stock_data"
HistKey == "load_historical_data"
Keys == {SnapKey, HistKey}

\* ttl= argument of the decorator of the function behind key k.
TTL(k) == IF k = SnapKey THEN TTL_SNAPSHOT ELSE TTL_HISTORY

\* Clock steps: half a snapshot TTL, and a whole history TTL.
Steps == {TTL_SNAPSHOT \div 2, TTL_HISTORY}

\* A value returned by a wrapped function: id counts the invocation that
\* produced it, ok is FALSE when the function caught an exception and
\* returned None, g is the cache object the invoking call started with.
NoVal == [id |-> 0, ok |-> FALSE, g |-> 0]
NoEntry == [present |-> FALSE, val |-> NoVal, storedAt |-> 0]
NoRet == [has |-> FALSE, by |-> 0, val |-> NoVal, hit |-> FALSE, key |-> SnapKey, callGen |-> 0]

\* Variants of IsLive: the expiry time taken without the ttl, and the
\* expiry test left out.
IsLiveTtlNotAdded(e, k, t) == e.present /\ t < e.storedAt
IsLiveNeverExpires(e, k, t) == e.present

\* Variant of IsLive: a stored None never expires.
IsLiveFailureSticky(e, k, t) == e.present /\ (~e.val.ok \/ t < e.storedAt + TTL(k))

\* TTLCache read: an entry is returned only while timer() < expires.
IsLive(e, k, t) == e.present /\ t < e.storedAt + TTL(k)

CacheStart ==
    /\ now = 0
    /\ ticks = 0
    /\ gen = 0
    /\ store = [g \in Gens |-> [k \in Keys |-> NoEntry]]
    /\ lock = [g \in Gens |-> [k \in Keys |-> 0]]
    /\ pc = [c \in Callers |-> "idle"]
    /\ ckey = [c \in Callers |-> SnapKey]
    /\ cgen = [c \in Callers |-> 0]
    /\ cid = [c \in Callers |-> 0]
    /\ ret = NoRet
    /\ calls = [k \in Keys |-> 0]

CacheInit ==
    /\ CacheStart
    /\ inUse \in {{k} : k \in Keys}

\* Variant of LockFree: the compute lock is never waited for.
LockNotTaken(g, k) == TRUE

\* The compute-value lock of key k in cache object g can be taken.
LockFree(g, k) == lock[g][k] = 0

\* The record a completed call leaves behind.
Returned(c, k, e, isHit, g) ==
    [has |-> TRUE, by |-> c, val |-> e.val, hit |-> isHit, key |-> k, callGen |-> g]

\* CachedFunc.__call__, first read (no lock held): a live entry is returned
\* at once, otherwise the session goes on to take the key's compute lock.
Call(c, k) ==
    /\ pc[c] = "idle"
    /\ k \in inUse
    /\ LET e == store[gen][k] IN
       IF IsLive(e, k, now)
       THEN /\ ret' = Returned(c, k, e, TRUE, gen)
            /\ UNCHANGED <<pc, ckey, cgen>>
       ELSE /\ pc' = [pc EXCEPT ![c] = "miss"]
            /\ ckey' = [ckey EXCEPT ![c] = k]
            /\ cgen' = [cgen EXCEPT ![c] = gen]
            /\ UNCHANGED ret
    /\ UNCHANGED <<now, ticks, gen, store, lock, cid, calls, inUse>>

\* Cache miss: take the compute lock of the key, read again under the lock,
\* and invoke the wrapped function only if the entry is still not live.
Acquire(c) ==
    /\ pc[c] = "miss"
    /\ LockFree(cgen[c], ckey[c])
    /\ LET k == ckey[c]
           g == cgen[c]
           e == store[g][k] IN
       IF IsLive(e, k, now)
       THEN /\ ret' = Returned(c, k, e, TRUE, g)
            /\ pc' = [pc EXCEPT ![c] = "idle"]
            /\ ckey' = [ckey EXCEPT ![c] = SnapKey]
            /\ cgen' = [cgen EXCEPT ![c] = 0]
            /\ UNCHANGED <<lock, calls, cid>>
       ELSE /\ calls[k] < MaxCalls
            /\ lock' = [lock EXCEPT ![g][k] = c]
            /\ calls' = [calls EXCEPT ![k] = @ + 1]
            /\ cid' = [cid EXCEPT ![c] = calls[k] + 1]
            /\ pc' = [pc EXCEPT ![c] = "computing"]
            /\ UNCHANGED <<ret, ckey, cgen>>
    /\ UNCHANGED <<now, ticks, gen, store, inUse>>

\* The wrapped function returns (a frame, or None after a caught exception);
\* the result is written to the cache object the call started with, the lock
\* is released and the result returned.
Finish(c, ok) ==
    /\ pc[c] = "computing"
    /\ LET k == ckey[c]
           g == cgen[c]
           e == [present |-> TRUE, val |-> [id |-> cid[c], ok |-> ok, g |-> g], storedAt |-> now] IN
       /\ store' = [store EXCEPT ![g][k] = e]
       /\ lock' = [lock EXCEPT ![g][k] = 0]
       /\ ret' = Returned(c, k, e, FALSE, g)
    /\ pc' = [pc EXCEPT ![c] = "idle"]
    /\ ckey' = [ckey EXCEPT ![c] = SnapKey]
    /\ cgen' = [cgen EXCEPT ![c] = 0]
    /\ cid' = [cid EXCEPT ![c] = 0]
    /\ UNCHANGED <<now, ticks, gen, calls, inUse>>

\* Variant of Clear: the entries survive the clear.
ClearKeepsEntries(c) ==
    /\ pc[c] = "idle"
    /\ gen < MaxClears
    /\ gen' = gen + 1
    /\ store' = [store EXCEPT ![gen + 1] = store[gen]]
    /\ UNCHANGED <<now, ticks, lock, pc, ckey, cgen, cid, ret, calls, inUse>>

\* "Refresh Now": st.cache_data.clear() drops every function cache; calls
\* made from now on get new, empty cache objects with their own locks, while
\* calls already in flight keep the object they started with.
Clear(c) ==
    /\ pc[c] = "idle"
    /\ gen < MaxClears
    /\ gen' = gen + 1
    /\ UNCHANGED <<now, ticks, store, lock, pc, ckey, cgen, cid, ret, calls, inUse>>

\* Time passes.
Tick(d) ==
    /\ ticks < MaxTicks
    /\ now' = now + d
    /\ ticks' = ticks + 1
    /\ UNCHANGED <<gen, store, lock, pc, ckey, cgen, cid, ret, calls, inUse>>

CacheNext ==
    \/ \E c \in Callers, k \in Keys : Call(c, k)
    \/ \E c \in Callers : Acquire(c)
    \/ \E c \in Callers, ok \in BOOLEAN : Finish(c, ok)
    \/ \E c \in Callers : Clear(c)
    \/ \E d \in Steps : Tick(d)

\* The wrapped function blocks in its upstream request and never returns:
\* neither loader passes a deadline of its own and nothing around the call
\* interrupts it.  The session keeps the compute lock it took.
Hang(c) ==
    /\ pc[c] = "computing"
    /\ pc' = [pc EXCEPT ![c] = "hung"]
    /\ UNCHANGED <<now, ticks, gen, store, lock, ckey, cgen, cid, ret, calls, inUse>>

\* The cached calls when the upstream may hang.
CacheNextHanging ==
    \/ CacheNext
    \/ \E c \in Callers : Hang(c)

\* Every session thread that can run does run, and a wrapped function that
\* has not hung returns; the clock runs.
CacheFairness ==
    /\ \A c \in Callers : WF_<<now, ticks, gen, store, lock, pc, ckey, cgen, cid, ret, calls, inUse>>(Acquire(c))
    /\ \A c \in Callers : WF_<<now, ticks, gen, store, lock, pc, ckey, cgen, cid, ret, calls, inUse>>(\E ok \in BOOLEAN : Finish(c, ok))

(***************************************************************************)
(* One run of dashboard.main: load_stock_data, rendering, ranking.         *)
(***************************************************************************)

\* The head of the symbols list of load_stock_data, in the program's order.
AllSymbols == <<"AAPL", "MSFT", "GOOGL", "AMZN", "META">>
symbols == SubSeq(AllSymbols, 1, NumSymbols)

\* float64 values: a finite value is the exact quotient n/d (d > 0); the
\* closes used here are small integers, for which float64 orders and equates
\* the computed quotients exactly as the rationals do.
NaN == [k |-> "nan", n |-> 0, d |-> 1]
PosInf == [k |-> "inf", n |-> 1, d |-> 1]
NegInf == [k |-> "inf", n |-> -1, d |-> 1]
Num(n, d) == [k |-> "num", n |-> n, d |-> d]
IsNaN(x) == x.k = "nan"

\* a - b on float64 (operands finite or NaN).
float_sub(a, b) ==
    IF IsNaN(a) \/ IsNaN(b) THEN NaN
    ELSE Num(a.n * b.d - b.n * a.d, a.d * b.d)

\* a / b on numpy float64 (operands finite or NaN, b >= 0): division by zero
\* raises nothing, it yields inf, -inf or nan.
float_div(a, b) ==
    IF IsNaN(a) \/ IsNaN(b) THEN NaN
    ELSE IF b.n = 0
         THEN IF a.n > 0 THEN PosInf ELSE IF a.n < 0 THEN NegInf ELSE NaN
         ELSE Num(a.n * b.d, a.d * b.n)

\* a * 100 on float64.
float_mul100(a) == IF a.k = "num" THEN Num(a.n * 100, a.d) ELSE a

\* a < b and a == b on float64: both are False when an operand is NaN.
float_lt(a, b) ==
    /\ ~IsNaN(a) /\ ~IsNaN(b)
    /\ IF a.k = "inf" THEN a.n = -1 /\ b # NegInf
       ELSE IF b.k = "inf" THEN b.n = 1
       ELSE a.n * b.d < b.n * a.d
float_eq(a, b) ==
    /\ ~IsNaN(a) /\ ~IsNaN(b)
    /\ IF a.k = "inf" \/ b.k = "inf" THEN a = b
       ELSE a.n * b.d = b.n * a.d

\* What the upstream can answer for one symbol: its two bars and its info
\* ("ok"), no column for it in the downloaded frame ("absent": KeyError),
\* fewer than two rows ("short": IndexError), or a Ticker.info that raises
\* ("info").  A close is a number or NaN (missing).
Closes == {Num(c, 1) : c \in 0..MaxClose}
NoBars(kind) == [kind |-> kind, close |-> Num(0, 1), prev |-> Num(0, 1)]
SymbolAnswers ==
    {NoBars("absent"), NoBars("short"), NoBars("info")}
    \cup {[kind |-> "ok", close |-> c, prev |-> q] : c \in Closes, q \in Closes \cup {NaN}}

\* What the upstream can answer for the batch: yf.download raises, or it
\* returns and each symbol has its answer.
BatchFailure == [batch |-> "raises", per |-> [i \in 1..NumSymbols |-> NoBars("absent")]]
Upstreams ==
    {BatchFailure}
    \cup {[batch |-> "ok", per |-> f] : f \in [1..NumSymbols -> SymbolAnswers]}

\* The value None and a DataFrame of rows.
NoneDf == [isNone |-> TRUE, rows |-> <<>>]
Frame(rows) == [isNone |-> FALSE, rows |-> rows]

\* change = ((price - prev_price) / prev_price) * 100
PctChange(price, prev_price) ==
    float_mul100(float_div(float_sub(price, prev_price), prev_price))

\* Variant of SymbolRows: a symbol that raised gets a zero-filled record.
SymbolRowsPlaceholder(up, i) ==
    IF up.per[i].kind # "ok"
    THEN <<[symbol |-> symbols[i], price |-> Num(0, 1), change |-> Num(0, 1)]>>
    ELSE <<[symbol |-> symbols[i], price |-> up.per[i].close,
            change |-> PctChange(up.per[i].close, up.per[i].prev)]>>

\* Body of the per-symbol try: the record appended for symbol i, nothing
\* when the body raised (the except logs a warning and continues).
SymbolRows(up, i) ==
    IF up.per[i].kind # "ok"
    THEN <<>>
    ELSE <<[symbol |-> symbols[i], price |-> up.per[i].close,
            change |-> PctChange(up.per[i].close, up.per[i].prev)]>>

\* stock_data after the first i symbols of the loop.
RECURSIVE stock_data(_, _)
stock_data(up, i) ==
    IF i = 0 THEN <<>> ELSE stock_data(up, i - 1) \o SymbolRows(up, i)

\* Variant of load_stock_data: a symbol that raises aborts the batch.
load_stock_data_aborting(up) ==
    IF up.batch = "raises" \/ \E i \in 1..NumSymbols : up.per[i].kind # "ok"
    THEN NoneDf
    ELSE Frame(stock_data(up, NumSymbols))

\* load_stock_data: None when the download raised, else the frame of the
\* records of the symbols that did not raise.
load_stock_data(up) ==
    IF up.batch = "raises" THEN NoneDf ELSE Frame(stock_data(up, NumSymbols))

\* Variant of NoData: the frame is not tested.
NoDataUnchecked(d) == FALSE

\* df is None or df.empty
NoData(d) == d.isNone \/ d.rows = <<>>

Min(a, b) == IF a <= b THEN a ELSE b
Take(s, n) == SubSeq(s, 1, Min(n, Len(s)))
Valued(rows) == SelectSeq(rows, LAMBDA r : ~IsNaN(r.change))
Unvalued(rows) == SelectSeq(rows, LAMBDA r : IsNaN(r.change))

\* Variant of InsertDesc: among equal values the later row goes first.
RECURSIVE InsertDescLastFirst(_, _)
InsertDescLastFirst(x, s) ==
    IF s = <<>> THEN <<x>>
    ELSE IF ~float_lt(x.change, Head(s).change) THEN <<x>> \o s
    ELSE <<Head(s)>> \o InsertDescLastFirst(x, Tail(s))

\* Stable sorting by 'change' (keep='first'): x goes behind the rows already
\* placed that are not smaller (descending) / not larger (ascending).
RECURSIVE InsertDesc(_, _)
InsertDesc(x, s) ==
    IF s = <<>> THEN <<x>>
    ELSE IF float_lt(Head(s).change, x.change) THEN <<x>> \o s
    ELSE <<Head(s)>> \o InsertDesc(x, Tail(s))

RECURSIVE InsertAsc(_, _)
InsertAsc(x, s) ==
    IF s = <<>> THEN <<x>>
    ELSE IF float_lt(x.change, Head(s).change) THEN <<x>> \o s
    ELSE <<Head(s)>> \o InsertAsc(x, Tail(s))

RECURSIVE SortDesc(_)
SortDesc(s) ==
    IF s = <<>> THEN <<>>
    ELSE InsertDesc(s[Len(s)], SortDesc(SubSeq(s, 1, Len(s) - 1)))

RECURSIVE SortAsc(_)
SortAsc(s) ==
    IF s = <<>> THEN <<>>
    ELSE InsertAsc(s[Len(s)], SortAsc(SubSeq(s, 1, Len(s) - 1)))

\* Variant of nlargest: the rows without a value are dropped.
nlargest_dropna(rows, n) == Take(SortDesc(Valued(rows)), n)

\* df.nlargest(n, 'change') / df.nsmallest(n, 'change'): the rows with a
\* value in stable order, then the rows whose change is NaN, cut to n rows.
nlargest(rows, n) == Take(SortDesc(Valued(rows)) \o Unvalued(rows), n)
nsmallest(rows, n) == Take(SortAsc(Valued(rows)) \o Unvalued(rows), n)

\* create_visualizations: the rows of the bar chart.
Labelled(rows, label) ==
    [i \in 1..Len(rows) |->
        [symbol |-> rows[i].symbol, change |-> rows[i].change, performance |-> label]]
create_visualizations(rows) ==
    Labelled(nlargest(rows, TopCount), "Top 10")
        \o Labelled(nsmallest(rows, TopCount), "Bottom 10")

BuildStart ==
    /\ bpc = "start"
    /\ df = NoneDf
    /\ shown = "none"
    /\ top = <<>>
    /\ bottom = <<>>
    /\ chart = <<>>
    /\ rk = -1
    /\ rtop = <<>>
    /\ rbottom = <<>>

BuildInit ==
    /\ BuildStart
    /\ upstream \in Upstreams

\* dashboard.main up to the end of rendering.
Main ==
    /\ bpc = "start"
    /\ LET d == load_stock_data(upstream) IN
       /\ df' = d
       /\ IF NoData(d)
          THEN /\ shown' = "error"
               /\ top' = <<>>
               /\ bottom' = <<>>
               /\ chart' = <<>>
          ELSE /\ shown' = "data"
               /\ top' = nlargest(d.rows, TopCount)
               /\ bottom' = nsmallest(d.rows, TopCount)
               /\ chart' = create_visualizations(d.rows)
    /\ bpc' = "done"
    /\ UNCHANGED <<upstream, rk, rtop, rbottom>>

\* The two rankings of the loaded frame for a requested n.
Rank(n) ==
    /\ bpc = "done"
    /\ ~df.isNone
    /\ rk' = n
    /\ rtop' = nlargest(df.rows, n)
    /\ rbottom' = nsmallest(df.rows, n)
    /\ UNCHANGED <<bpc, upstream, df, shown, top, bottom, chart>>

BuildNext ==
    \/ Main
    \/ \E n \in 0..MaxK : Rank(n)

(***************************************************************************)
(* The price-prediction page (pages/4_Price_Prediction.py): main loads the *)
(* snapshot frame, reads the stock and the prediction period from its      *)
(* widgets, loads two years of daily history, fits Prophet and plots the   *)
(* last prediction_days points of the forecast.                            *)
(***************************************************************************)
VARIABLES ppc, psnap, phist, userChose, prediction_days, selected_stock,
          pdf, historical_data, trained, forecast, fview, pshown

predictVars == <<ppc, psnap, phist, userChose, prediction_days, selected_stock,
                 pdf, historical_data, trained, forecast, fview, pshown>>

\* st.slider(min_value=30, max_value=365, value=365, step=30): the steps
\* from the minimum, and the maximum itself.
SliderSteps == {v \in SLIDER_MIN..SLIDER_MAX : (v - SLIDER_MIN) % SLIDER_STEP = 0}
\* Variant of SliderValues: the widget also offers values below its minimum
\* and above its maximum.
SliderValuesUnbounded == SliderSteps \cup {SLIDER_MAX, 0, SLIDER_MAX + SLIDER_STEP}
SliderValues == SliderSteps \cup {SLIDER_MAX}

\* What the upstream can answer for the snapshot batch of this page: the
\* batch raises, no symbol has bars, or every symbol has two bars.
AllAnswer(a) == [batch |-> "ok", per |-> [i \in 1..NumSymbols |-> a]]
PageUpstreams ==
    {BatchFailure, AllAnswer(NoBars("absent")),
     AllAnswer([kind |-> "ok", close |-> Num(1, 1), prev |-> Num(1, 1)])}

\* Daily bars of ticker.history: strictly increasing days, each with a Close
\* that is a number (ok) or NaN.
RECURSIVE DaysUpFrom(_, _)
DaysUpFrom(lo, hi) ==
    IF lo > hi THEN {<<>>}
    ELSE DaysUpFrom(lo + 1, hi)
         \cup {<<[ds |-> lo, ok |-> b]>> \o s : b \in BOOLEAN, s \in DaysUpFrom(lo + 1, hi)}
Bars == DaysUpFrom(1, MaxDay)
HistoryAnswers ==
    {[kind |-> "raises", bars |-> <<>>]} \cup {[kind |-> "ok", bars |-> b] : b \in Bars}

\* load_historical_data: None when the frame is empty or anything raised,
\* else the ds / y frame.
load_historical_data(ans) ==
    IF ans.kind = "raises" \/ Len(ans.bars) = 0 THEN NoneDf ELSE Frame(ans.bars)

\* Prophet.fit: raises ValueError with fewer than 2 non-NaN rows.
FitRaises(rows) == Len(SelectSeq(rows, LAMBDA r : r.ok)) < 2

\* Variant of FutureDates: the range starts at the last history date.
FutureDatesFromLast(last, periods) == [i \in 1..periods |-> last + i - 1]
\* Prophet.make_future_dataframe: periods daily dates after the last date.
FutureDates(last, periods) == [i \in 1..periods |-> last + i]
make_future_dataframe(rows, periods) ==
    [i \in 1..Len(rows) |-> rows[i].ds] \o FutureDates(rows[Len(rows)].ds, periods)

NoForecast == [raised |-> FALSE, ds |-> <<>>]
\* train_prophet_model: fit, make_future_dataframe, predict (one forecast
\* row per date of the future frame).
train_prophet_model(rows, periods) ==
    IF FitRaises(rows) THEN [raised |-> TRUE, ds |-> <<>>]
    ELSE [raised |-> FALSE, ds |-> make_future_dataframe(rows, periods)]

\* s[-n:] of a pandas Series, n > 0.
LastPoints(s, n) == SubSeq(s, IF Len(s) > n THEN Len(s) - n + 1 ELSE 1, Len(s))

PredictStart ==
    /\ ppc = "start"
    /\ userChose = FALSE
    /\ prediction_days = SLIDER_DEFAULT
    /\ selected_stock = ""
    /\ pdf = NoneDf
    /\ historical_data = NoneDf
    /\ trained = FALSE
    /\ forecast = NoForecast
    /\ fview = <<>>
    /\ pshown = "none"

PredictIdle ==
    /\ PredictStart
    /\ psnap = BatchFailure
    /\ phist = [kind |-> "raises", bars |-> <<>>]

PredictInit ==
    /\ PredictStart
    /\ psnap \in PageUpstreams
    /\ phist \in HistoryAnswers

\* The user drags the prediction-period slider.
MoveSlider(v) ==
    /\ ppc = "start"
    /\ userChose' = TRUE
    /\ prediction_days' = v
    /\ UNCHANGED <<ppc, psnap, phist, selected_stock, pdf, historical_data,
                   trained, forecast, fview, pshown>>

\* main of the prediction page, for the stock s chosen in the selectbox.
PredictionMain(s) ==
    /\ ppc = "start"
    /\ ppc' = "done"
    /\ pdf' = load_stock_data(psnap)
    /\ UNCHANGED <<psnap, phist, userChose, prediction_days>>
    /\ IF NoData(pdf')
       THEN /\ pshown' = "no_data_error"
            /\ s = ""
            /\ UNCHANGED <<selected_stock, historical_data, trained, forecast, fview>>
       ELSE /\ \E i \in 1..Len(pdf'.rows) : s = pdf'.rows[i].symbol
            /\ selected_stock' = s
            /\ historical_data' = load_historical_data(phist)
            /\ IF NoData(historical_data')
               THEN /\ pshown' = "no_history_error"
                    /\ UNCHANGED <<trained, forecast, fview>>
               ELSE /\ trained' = TRUE
                    /\ forecast' = train_prophet_model(historical_data'.rows, prediction_days)
                    /\ IF forecast'.raised
                       THEN /\ pshown' = "exception"
                            /\ fview' = <<>>
                       ELSE /\ pshown' = "forecast"
                            /\ fview' = LastPoints(forecast'.ds, prediction_days)

PredictNext ==
    \/ \E v \in SliderValues : MoveSlider(v)
    \/ \E s \in {symbols[i] : i \in 1..NumSymbols} \cup {""} : PredictionMain(s)

(***************************************************************************)
(* The market-overview page (pages/2_Market_Overview.py): main loads the   *)
(* snapshot frame, shows its aggregate metrics and the most active stocks. *)
(***************************************************************************)
VARIABLES opc, oupstream, odf, total_market_cap, total_volume, avg_pe, pe_text,
          active_stocks, ak, oshown

overviewVars == <<opc, oupstream, odf, total_market_cap, total_volume, avg_pe,
                  pe_text, active_stocks, ak, oshown>>

\* What the upstream can answer for a symbol on this page: its processing
\* raises, or it has a Volume, a marketCap (0 when info has none) and a
\* trailingPE (None, kept as NaN, when info has none).
PERatios == {NaN} \cup {Num(p, 1) : p \in 1..MaxPE}
QuoteFailure == [kind |-> "fail", volume |-> 0, market_cap |-> 0, pe_ratio |-> NaN]
QuoteAnswers ==
    {QuoteFailure}
    \cup {[kind |-> "ok", volume |-> v, market_cap |-> m, pe_ratio |-> p] :
            v \in 0..MaxVolume, m \in 0..MaxCap, p \in PERatios}
QuoteBatchFailure == [batch |-> "raises", per |-> [i \in 1..NumSymbols |-> QuoteFailure]]
QuoteUpstreams ==
    {QuoteBatchFailure}
    \cup {[batch |-> "ok", per |-> f] : f \in [1..NumSymbols -> QuoteAnswers]}

\* load_stock_data of this page, for the columns the page aggregates: one
\* record per symbol that was processed without an exception.
RECURSIVE quote_data(_, _)
quote_data(up, i) ==
    IF i = 0 THEN <<>>
    ELSE quote_data(up, i - 1)
         \o (IF up.per[i].kind = "ok"
             THEN <<[symbol |-> symbols[i], volume |-> up.per[i].volume,
                     market_cap |-> up.per[i].market_cap,
                     pe_ratio |-> up.per[i].pe_ratio]>>
             ELSE <<>>)
load_quotes(up) ==
    IF up.batch = "raises" THEN NoneDf ELSE Frame(quote_data(up, NumSymbols))

\* df['volume'].sum() and df['market_cap'].sum().
RECURSIVE sum_volume(_)
sum_volume(rows) ==
    IF rows = <<>> THEN 0 ELSE Head(rows).volume + sum_volume(Tail(rows))
RECURSIVE sum_market_cap(_)
sum_market_cap(rows) ==
    IF rows = <<>> THEN 0 ELSE Head(rows).market_cap + sum_market_cap(Tail(rows))

\* Series.mean() skips the null values: sum and count of the others, and NaN
\* when there is none.
RECURSIVE sum_pe(_)
sum_pe(rows) ==
    IF rows = <<>> THEN 0
    ELSE (IF IsNaN(Head(rows).pe_ratio) THEN 0 ELSE Head(rows).pe_ratio.n)
         + sum_pe(Tail(rows))
count_pe(rows) == Len(SelectSeq(rows, LAMBDA r : ~IsNaN(r.pe_ratio)))
\* Variant of mean_pe: a missing P/E counts as zero.
mean_pe_fillna(rows) == Num(sum_pe(rows), Len(rows))
mean_pe(rows) ==
    IF count_pe(rows) = 0 THEN NaN ELSE Num(sum_pe(rows), count_pe(rows))

\* f"{avg_pe:.2f}": 'nan' for NaN, else the value in hundredths.
format_2f(x) ==
    IF IsNaN(x) THEN [nan |-> TRUE, hundredths |-> 0]
    ELSE [nan |-> FALSE, hundredths |-> (200 * x.n + x.d) \div (2 * x.d)]

\* Variant of InsertByVolume: among equal volumes the later row goes first.
RECURSIVE InsertByVolumeLastFirst(_, _)
InsertByVolumeLastFirst(x, s) ==
    IF s = <<>> THEN <<x>>
    ELSE IF Head(s).volume <= x.volume THEN <<x>> \o s
    ELSE <<Head(s)>> \o InsertByVolumeLastFirst(x, Tail(s))

\* Stable sorting by 'volume', descending (keep='first').
RECURSIVE InsertByVolume(_, _)
InsertByVolume(x, s) ==
    IF s = <<>> THEN <<x>>
    ELSE IF Head(s).volume < x.volume THEN <<x>> \o s
    ELSE <<Head(s)>> \o InsertByVolume(x, Tail(s))

RECURSIVE SortByVolume(_)
SortByVolume(s) ==
    IF s = <<>> THEN <<>>
    ELSE InsertByVolume(s[Len(s)], SortByVolume(SubSeq(s, 1, Len(s) - 1)))

\* get_most_active_stocks: df.nlargest(n, 'volume').copy()
get_most_active_stocks(rows, n) == Take(SortByVolume(rows), n)

OverviewStart ==
    /\ opc = "start"
    /\ odf = NoneDf
    /\ total_market_cap = 0
    /\ total_volume = 0
    /\ avg_pe = NaN
    /\ pe_text = format_2f(NaN)
    /\ active_stocks = <<>>
    /\ ak = -1
    /\ oshown = "none"

OverviewIdle == OverviewStart /\ oupstream = QuoteBatchFailure
OverviewInit == OverviewStart /\ oupstream \in QuoteUpstreams

\* main of the overview page.
OverviewMain ==
    /\ opc = "start"
    /\ opc' = "done"
    /\ odf' = load_quotes(oupstream)
    /\ IF NoData(odf')
       THEN /\ oshown' = "error"
            /\ UNCHANGED <<total_market_cap, total_volume, avg_pe, pe_text,
                           active_stocks, ak>>
       ELSE /\ oshown' = "data"
            /\ total_market_cap' = sum_market_cap(odf'.rows)
            /\ total_volume' = sum_volume(odf'.rows)
            /\ avg_pe' = mean_pe(odf'.rows)
            /\ pe_text' = format_2f(avg_pe')
            /\ active_stocks' = get_most_active_stocks(odf'.rows, ACTIVE_COUNT)
            /\ ak' = ACTIVE_COUNT
    /\ UNCHANGED oupstream

\* get_most_active_stocks of the loaded frame for a requested n.
MostActive(n) ==
    /\ opc = "done"
    /\ oshown = "data"
    /\ ak' = n
    /\ active_stocks' = get_most_active_stocks(odf.rows, n)
    /\ UNCHANGED <<opc, oupstream, odf, total_market_cap, total_volume, avg_pe,
                   pe_text, oshown>>

OverviewNext ==
    \/ OverviewMain
    \/ \E n \in 0..MaxK : MostActive(n)

(***************************************************************************)
(* The snapshot frame between the session that builds it and the sessions  *)
(* that read it: load_stock_data appends its records to a local list and   *)
(* returns the DataFrame; st.cache_data stores the returned value pickled  *)
(* and hands every reader a frame unpickled for it; create_visualizations  *)
(* ranks the reader's frame and labels the rows of the ranking.            *)
(***************************************************************************)
VARIABLES spc, supstream, stock_list, si, entry, rstate, rdf, rtopf

shareVars == <<spc, supstream, stock_list, si, entry, rstate, rdf, rtopf>>

\* The upstream answers used here: a symbol has no bars, or two closes the
\* earlier of which is 1.
ShareAnswers ==
    {NoBars("absent")} \cup {[kind |-> "ok", close |-> c, prev |-> Num(1, 1)] : c \in Closes}
ShareUpstreams ==
    {BatchFailure}
    \cup {[batch |-> "ok", per |-> f] : f \in [1..NumSymbols -> ShareAnswers]}

NoStored == [present |-> FALSE, val |-> NoneDf]
Stored(d) == [present |-> TRUE, val |-> d]

ShareStart ==
    /\ spc = "running"
    /\ stock_list = <<>>
    /\ si = 1
    /\ entry = NoStored
    /\ rstate = [r \in Callers |-> "none"]
    /\ rdf = [r \in Callers |-> NoneDf]
    /\ rtopf = [r \in Callers |-> <<>>]

ShareIdle == ShareStart /\ supstream = BatchFailure
ShareInit == ShareStart /\ supstream \in ShareUpstreams

\* One pass of the loop over symbols: the record of symbol si is appended to
\* the local list, or nothing when its processing raised.
AppendRecord ==
    /\ spc = "running"
    /\ supstream.batch = "ok"
    /\ si <= NumSymbols
    /\ stock_list' = stock_list \o SymbolRows(supstream, si)
    /\ si' = si + 1
    /\ UNCHANGED <<spc, supstream, entry, rstate, rdf, rtopf>>

\* return df: the wrapper stores the pickled frame as the key's entry.
ReturnFrame ==
    /\ spc = "running"
    /\ supstream.batch = "ok"
    /\ si > NumSymbols
    /\ entry' = Stored(Frame(stock_list))
    /\ spc' = "stored"
    /\ UNCHANGED <<supstream, stock_list, si, rstate, rdf, rtopf>>

\* The download raised: return None, which the wrapper stores.
ReturnNone ==
    /\ spc = "running"
    /\ supstream.batch = "raises"
    /\ entry' = Stored(NoneDf)
    /\ spc' = "stored"
    /\ UNCHANGED <<supstream, stock_list, si, rstate, rdf, rtopf>>

\* df = load_stock_data() in a reading session: a cache hit unpickles the
\* entry into a frame of the reader's own; main stops on None or empty.
ReadFrame(r) ==
    /\ rstate[r] = "none"
    /\ entry.present
    /\ rdf' = [rdf EXCEPT ![r] = entry.val]
    /\ rstate' = [rstate EXCEPT ![r] = IF NoData(entry.val) THEN "error" ELSE "loaded"]
    /\ UNCHANGED <<spc, supstream, stock_list, si, entry, rtopf>>

\* top_performers = df.nlargest(10, 'change'): a new frame.
SelectTop(r) ==
    /\ rstate[r] = "loaded"
    /\ rtopf' = [rtopf EXCEPT ![r] = nlargest(rdf[r].rows, TopCount)]
    /\ rstate' = [rstate EXCEPT ![r] = "ranked"]
    /\ UNCHANGED <<spc, supstream, stock_list, si, entry, rdf>>

\* Variant of LabelTop: the column is assigned on the reader's df.
LabelTopInPlace(r) ==
    /\ rstate[r] = "ranked"
    /\ rdf' = [rdf EXCEPT ![r] = Frame(Labelled(rdf[r].rows, "Top 10"))]
    /\ rstate' = [rstate EXCEPT ![r] = "labelled"]
    /\ UNCHANGED <<spc, supstream, stock_list, si, entry, rtopf>>

\* top_performers['performance'] = 'Top 10': the column is assigned on the
\* frame nlargest returned.
LabelTop(r) ==
    /\ rstate[r] = "ranked"
    /\ rtopf' = [rtopf EXCEPT ![r] = Labelled(rtopf[r], "Top 10")]
    /\ rstate' = [rstate EXCEPT ![r] = "labelled"]
    /\ UNCHANGED <<spc, supstream, stock_list, si, entry, rdf>>

\* st.experimental_rerun(): the script starts over, its frames are dropped.
Rerun(r) ==
    /\ rstate[r] \in {"error", "labelled"}
    /\ rstate' = [rstate EXCEPT ![r] = "none"]
    /\ rdf' = [rdf EXCEPT ![r] = NoneDf]
    /\ rtopf' = [rtopf EXCEPT ![r] = <<>>]
    /\ UNCHANGED <<spc, supstream, stock_list, si, entry>>

ShareNext ==
    \/ AppendRecord
    \/ ReturnFrame
    \/ ReturnNone
    \/ \E r \in Callers : ReadFrame(r)
    \/ \E r \in Callers : SelectTop(r)
    \/ \E r \in Callers : LabelTop(r)
    \/ \E r \in Callers : Rerun(r)

(***************************************************************************)
(* The dashboard's refresh loop (dashboard.py, main): a run loads the      *)
(* frame, renders it, counts 30 seconds down and reruns the script; the    *)
(* "Refresh Now" button clears the caches and reruns at once.              *)
(***************************************************************************)
VARIABLES dpc, dupstream, ddf, seconds_left, runs

refreshVars == <<dpc, dupstream, ddf, seconds_left, runs>>

RefreshStart ==
    /\ dpc = "load"
    /\ ddf = NoneDf
    /\ seconds_left = 0
    /\ runs = 0

RefreshIdle == RefreshStart /\ dupstream = BatchFailure
RefreshInit == RefreshStart /\ dupstream \in PageUpstreams

\* A run of main up to the end of rendering: on None or an empty frame it
\* shows the error and returns; otherwise it renders and enters the countdown
\* loop with seconds_left = 30.
DashboardRun ==
    /\ dpc = "load"
    /\ ddf' = load_stock_data(dupstream)
    /\ IF NoData(ddf')
       THEN /\ dpc' = "returned"
            /\ seconds_left' = 0
       ELSE /\ dpc' = "countdown"
            /\ seconds_left' = REFRESH_SECONDS
    /\ UNCHANGED <<dupstream, runs>>

\* One pass of the countdown loop: the placeholder shows seconds_left and the
\* script sleeps a second.
CountdownStep ==
    /\ dpc = "countdown"
    /\ seconds_left > 1
    /\ seconds_left' = seconds_left - 1
    /\ UNCHANGED <<dpc, dupstream, ddf, runs>>

\* The last pass of the loop, then st.experimental_rerun(): the script starts
\* over, against whatever the upstream answers by then.
CountdownRerun ==
    /\ dpc = "countdown"
    /\ seconds_left = 1
    /\ dpc' = "load"
    /\ seconds_left' = 0
    /\ ddf' = NoneDf
    /\ runs' = IF runs < MaxRuns THEN runs + 1 ELSE runs
    /\ dupstream' \in PageUpstreams

\* The user clicks "Refresh Now": st.cache_data.clear() and
\* st.experimental_rerun(), whatever the script was doing.
RefreshNow ==
    /\ dpc \in {"countdown", "returned"}
    /\ dpc' = "load"
    /\ seconds_left' = 0
    /\ ddf' = NoneDf
    /\ runs' = IF runs < MaxRuns THEN runs + 1 ELSE runs
    /\ dupstream' \in PageUpstreams

RefreshNext ==
    \/ DashboardRun
    \/ CountdownStep
    \/ CountdownRerun
    \/ RefreshNow

\* The script thread runs whenever it has a step to take; the user need
\* never click.
RefreshFairness ==
    /\ WF_refreshVars(DashboardRun)
    /\ WF_refreshVars(CountdownStep)
    /\ WF_refreshVars(CountdownRerun)

(***************************************************************************)
(* The snapshot caches of the four views.  Each of dashboard.py and the    *)
(* three pages defines its own @st.cache_data(ttl=30) load_stock_data.     *)
(* Streamlit keys a function's cache by the function's module name, its    *)
(* qualified name and its source text; every script of a multipage app is  *)
(* executed as module __main__.  The prediction page also calls            *)
(* load_historical_data (ttl=3600) for the selected stock.                 *)
(***************************************************************************)
VARIABLES vnow, vticks, vstore, vhist, vlast

viewVars == <<vnow, vticks, vstore, vhist, vlast>>

Views == {"dashboard", "overview", "comparison", "prediction"}

\* The source text of a view's load_stock_data, decorator line included: the
\* function of dashboard.py and that of the overview page are the same text,
\* the other two differ from it and from each other in comments and spacing.
SourceOf(v) ==
    CASE v = "dashboard" -> "text_1"
      [] v = "overview" -> "text_1"
      [] v = "comparison" -> "text_2"
      [] v = "prediction" -> "text_3"

\* Variant of FunctionKey: the key carries the view's file instead of the
\* module name the script runs under.
FunctionKeyPerFile(v) == <<v, "load_stock_data", SourceOf(v)>>

\* The key of the function cache of a view's load_stock_data.
FunctionKey(v) == <<"__main__", "load_stock_data", SourceOf(v)>>
FunctionKeys == {FunctionKey(v) : v \in Views}

NoViewEntry == [present |-> FALSE, by |-> "", storedAt |-> 0]
NoViewCall == [view |-> "", hit |-> FALSE, by |-> "", histHit |-> FALSE]

\* An entry is returned only while it is younger than the ttl.
ViewLive(e, ttl) == e.present /\ vnow < e.storedAt + ttl

ViewStart ==
    /\ vnow = 0
    /\ vticks = 0
    /\ vstore = [k \in FunctionKeys |-> NoViewEntry]
    /\ vhist = NoViewEntry
    /\ vlast = NoViewCall

\* A run of the main of view v: df = load_stock_data() is served from the
\* function's cache or fetched and stored; the prediction page then calls
\* load_historical_data for the stock its selectbox shows first.
ViewRun(v) ==
    LET k == FunctionKey(v)
        hit == ViewLive(vstore[k], TTL_SNAPSHOT)
        histHit == ViewLive(vhist, TTL_HISTORY) IN
    /\ vstore' = IF hit THEN vstore
                 ELSE [vstore EXCEPT ![k] = [present |-> TRUE, by |-> v, storedAt |-> vnow]]
    /\ vhist' = IF v = "prediction" /\ ~histHit
                THEN [present |-> TRUE, by |-> v, storedAt |-> vnow]
                ELSE vhist
    /\ vlast' = [view |-> v, hit |-> hit, by |-> vstore'[k].by,
                 histHit |-> (v = "prediction" /\ histHit)]
    /\ UNCHANGED <<vnow, vticks>>

\* "Refresh Now" on the dashboard: st.cache_data.clear() empties the caches
\* of all cached functions.
ViewRefreshNow ==
    /\ vstore' = [k \in FunctionKeys |-> NoViewEntry]
    /\ vhist' = NoViewEntry
    /\ vlast' = NoViewCall
    /\ UNCHANGED <<vnow, vticks>>

\* Time passes.
ViewTick ==
    /\ vticks < MaxTicks
    /\ vnow' = vnow + TTL_SNAPSHOT \div 2
    /\ vticks' = vticks + 1
    /\ vlast' = NoViewCall
    /\ UNCHANGED <<vstore, vhist>>

ViewNext ==
    \/ \E v \in Views : ViewRun(v)
    \/ ViewRefreshNow
    \/ ViewTick

(***************************************************************************)
(* The history cache of the prediction page: load_historical_data(symbol,  *)
(* years=2) is cached for 3600 s under its arguments; the prediction       *)
(* period is an argument of train_prophet_model only, which is not cached. *)
(***************************************************************************)
VARIABLES hnow, hticks, hstore, hlast

historyVars == <<hnow, hticks, hstore, hlast>>

\* The prediction periods a run is made with: the slider's minimum and its
\* default.
Horizons == {SLIDER_MIN, SLIDER_DEFAULT}
SymbolSet == {symbols[i] : i \in 1..NumSymbols}

\* Variant of HistoryKey: the prediction period is part of the key.
HistoryKeyWithPeriod(symbol, years, periods) == <<symbol, years, periods>>

\* The cache key of a call load_historical_data(symbol, years=years) made in
\* a run whose slider shows periods.
HistoryKey(symbol, years, periods) == <<symbol, years>>
HistoryKeys == {HistoryKey(s, LOOKBACK_YEARS, h) : s \in SymbolSet, h \in Horizons}

\* A stored series: the symbol it was fetched for, and whether the fetch
\* gave rows (ok) or None.
NoSeries == [present |-> FALSE, symbol |-> "", ok |-> FALSE, storedAt |-> 0]
NoRun == [ran |-> FALSE, symbol |-> "", periods |-> 0, periodOnly |-> FALSE,
          histCalled |-> FALSE, histHit |-> FALSE, served |-> "", fitted |-> FALSE]

SeriesLive(e) == e.present /\ hnow < e.storedAt + TTL_HISTORY

HistoryStart ==
    /\ hnow = 0
    /\ hticks = 0
    /\ hstore = [k \in HistoryKeys |-> NoSeries]
    /\ hlast = NoRun

\* A run of the prediction page's main for the selected stock s and the
\* prediction period h (periodOnly: the run before was for the same stock
\* and another period).  snapOk: load_stock_data gave a non-empty frame;
\* histOk: the history fetch, if one is made, gives rows.  The history is
\* served from the cache or fetched and stored; with a history the model is
\* fitted and the forecast made.
HistoryRun(s, h, snapOk, histOk) ==
    LET k == HistoryKey(s, LOOKBACK_YEARS, h)
        hit == SeriesLive(hstore[k])
        e == IF hit THEN hstore[k]
             ELSE [present |-> TRUE, symbol |-> s, ok |-> histOk, storedAt |-> hnow] IN
    /\ hstore' = IF snapOk THEN [hstore EXCEPT ![k] = e] ELSE hstore
    /\ hlast' = [ran |-> TRUE, symbol |-> s, periods |-> h,
                 periodOnly |-> (hlast.symbol = s /\ hlast.periods # h),
                 histCalled |-> snapOk,
                 histHit |-> (snapOk /\ hit),
                 served |-> IF snapOk THEN e.symbol ELSE "",
                 fitted |-> (snapOk /\ e.ok)]
    /\ UNCHANGED <<hnow, hticks>>

\* Time passes, half a history TTL at a time.
HistoryTick ==
    /\ hticks < MaxHistoryTicks
    /\ hnow' = hnow + TTL_HISTORY \div 2
    /\ hticks' = hticks + 1
    /\ UNCHANGED <<hstore, hlast>>

HistoryNext ==
    \/ \E s \in SymbolSet, h \in Horizons, snapOk \in BOOLEAN, histOk \in BOOLEAN :
          HistoryRun(s, h, snapOk, histOk)
    \/ HistoryTick

vars == <<cacheVars, buildVars, predictVars, overviewVars, shareVars, refreshVars, viewVars, historyVars>>

\* The cached calls of concurrent sessions.
BuildIdle == BuildStart /\ upstream = BatchFailure
CacheIdle == CacheStart /\ inUse = {}
Init == CacheInit /\ BuildIdle /\ PredictIdle /\ OverviewIdle /\ ShareIdle /\ RefreshIdle /\ ViewStart /\ HistoryStart
Next == CacheNext /\ UNCHANGED <<buildVars, predictVars, overviewVars, shareVars, refreshVars, viewVars, historyVars>>
Spec == Init /\ [][Next]_vars

\* One run of main over one upstream answer.
InitBuild == BuildInit /\ CacheIdle /\ PredictIdle /\ OverviewIdle /\ ShareIdle /\ RefreshIdle /\ ViewStart /\ HistoryStart
NextBuild == BuildNext /\ UNCHANGED <<cacheVars, predictVars, overviewVars, shareVars, refreshVars, viewVars, historyVars>>
SpecBuild == InitBuild /\ [][NextBuild]_vars

\* One run of the prediction page over one upstream answer.
InitPredict == PredictInit /\ CacheIdle /\ BuildIdle /\ OverviewIdle /\ ShareIdle /\ RefreshIdle /\ ViewStart /\ HistoryStart
NextPredict == PredictNext /\ UNCHANGED <<cacheVars, buildVars, overviewVars, shareVars, refreshVars, viewVars, historyVars>>
SpecPredict == InitPredict /\ [][NextPredict]_vars

\* The cached calls of concurrent sessions over an upstream that may hang.
NextLive == CacheNextHanging /\ UNCHANGED <<buildVars, predictVars, overviewVars, shareVars, refreshVars, viewVars, historyVars>>
SpecLive == Init /\ [][NextLive]_vars /\ CacheFairness

\* One run of the overview page over one upstream answer.
InitOverview == OverviewInit /\ CacheIdle /\ BuildIdle /\ PredictIdle /\ ShareIdle /\ RefreshIdle /\ ViewStart /\ HistoryStart
NextOverview == OverviewNext /\ UNCHANGED <<cacheVars, buildVars, predictVars, shareVars, refreshVars, viewVars, historyVars>>
SpecOverview == InitOverview /\ [][NextOverview]_vars

\* One snapshot frame, the session building it and the sessions reading it.
InitShare == ShareInit /\ CacheIdle /\ BuildIdle /\ PredictIdle /\ OverviewIdle /\ RefreshIdle /\ ViewStart /\ HistoryStart
NextShare == ShareNext /\ UNCHANGED <<cacheVars, buildVars, predictVars, overviewVars, refreshVars, viewVars, historyVars>>
SpecShare == InitShare /\ [][NextShare]_vars

\* The dashboard session over its reruns.
InitRefresh == RefreshInit /\ CacheIdle /\ BuildIdle /\ PredictIdle /\ OverviewIdle /\ ShareIdle /\ ViewStart /\ HistoryStart
NextRefresh == RefreshNext /\ UNCHANGED <<cacheVars, buildVars, predictVars, overviewVars, shareVars, viewVars, historyVars>>
SpecRefresh == InitRefresh /\ [][NextRefresh]_vars /\ RefreshFairness

\* The four views and their snapshot caches.
InitViews == ViewStart /\ CacheIdle /\ BuildIdle /\ PredictIdle /\ OverviewIdle /\ ShareIdle /\ RefreshIdle /\ HistoryStart
NextViews == ViewNext /\ UNCHANGED <<cacheVars, buildVars, predictVars, overviewVars, shareVars, refreshVars, historyVars>>
SpecViews == InitViews /\ [][NextViews]_vars

\* The runs of the prediction page and its history cache.
InitHistory == HistoryStart /\ CacheIdle /\ BuildIdle /\ PredictIdle /\ OverviewIdle /\ ShareIdle /\ RefreshIdle /\ ViewStart
NextHistory == HistoryNext /\ UNCHANGED <<cacheVars, buildVars, predictVars, overviewVars, shareVars, refreshVars, viewVars>>
SpecHistory == InitHistory /\ [][NextHistory]_vars

(***************************************************************************)
(* Properties of the cached calls.                                         *)
(***************************************************************************)

\* The cache object a call of session c reads: the current one when the call
\* starts, the one it started with afterwards.
CacheOf(c) == IF pc[c] = "idle" THEN gen ELSE cgen[c]

\* Entry e of key k was stored less than TTL(k) seconds ago.
Fresh(e, k) == e.present /\ now < e.storedAt + TTL(k)

\* Sessions running the wrapped function for key k / for key k of cache g.
InFlight(k) == {c \in Callers : pc[c] = "computing" /\ ckey[c] = k}
InFlightIn(g, k) == {c \in InFlight(k) : cgen[c] = g}

\* A read of the cache by session c for key k: the first read of a call, or
\* the second read under the compute lock.
Reads(c, k) == Call(c, k) \/ (Acquire(c) /\ ckey[c] = k)

\* C1: a call for a key whose entry was stored less than TTL seconds ago
\* (30 s for the snapshot, 3600 s for a history series) returns the stored
\* value and does not invoke the wrapped function.
C1_FreshEntryServedWithoutCompute ==
    [][\A c \in Callers, k \in Keys :
          LET e == store[CacheOf(c)][k] IN
          (Reads(c, k) /\ Fresh(e, k))
              => /\ calls' = calls
                 /\ store' = store
                 /\ pc'[c] = "idle"
                 /\ ret'.has /\ ret'.hit /\ ret'.by = c /\ ret'.key = k
                 /\ ret'.val = e.val]_vars

\* A call returned an entry that had been stored at an earlier time.
C1_Witness ==
    /\ ret.has /\ ret.hit
    /\ store[ret.callGen][ret.key].val = ret.val
    /\ store[ret.callGen][ret.key].storedAt < now
    /\ calls[ret.key] = 1

C3_MissComputesAndStores ==
    [][\A c \in Callers :
          LET k == ckey[c]
              g == cgen[c] IN
          /\ (Acquire(c) /\ ~Fresh(store[g][k], k))
                => /\ pc'[c] = "computing"
                   /\ calls'[k] = calls[k] + 1
                   /\ InFlightIn(g, k) = {}
          /\ (pc[c] = "computing" /\ pc'[c] = "idle")
                => /\ store'[g][k].present
                   /\ store'[g][k].storedAt = now
                   /\ store'[g][k].val.id = cid[c]
                   /\ ret'.has /\ ~ret'.hit /\ ret'.by = c
                   /\ ret'.val = store'[g][k].val
          /\ (ret' # ret /\ ret'.hit)
                => /\ Fresh(store[ret'.callGen][ret'.key], ret'.key)
                   /\ ret'.val = store[ret'.callGen][ret'.key].val]_vars

\* A failed computation was stored after an older entry of the key expired.
C3_Witness ==
    /\ ret.has /\ ~ret.hit /\ ~ret.val.ok
    /\ ret.val.id = 2
    /\ store[ret.callGen][ret.key].val = ret.val

\* The key has no entry computed since the clear that created cache object g.
NoFetchSinceClear(g, k) == ~(store[g][k].present /\ store[g][k].val.g = g)

\* C4: after a cache clear, a call for a key that has not been computed since
\* the clear misses the cache and invokes the wrapped function, whatever the
\* age of the entry the key had before the clear.
C4_ClearForcesRecompute ==
    [][\A c \in Callers :
          /\ \A k \in Keys :
                (Call(c, k) /\ gen >= 1 /\ NoFetchSinceClear(gen, k))
                    => (pc'[c] = "miss" /\ ret' = ret)
          /\ (Acquire(c) /\ cgen[c] >= 1 /\ NoFetchSinceClear(cgen[c], ckey[c]))
                => /\ pc'[c] = "computing"
                   /\ calls'[ckey[c]] = calls[ckey[c]] + 1]_vars

\* A call made after a clear computed a new value while the entry of before
\* the clear was still within its TTL.
C4_Witness ==
    /\ ret.has /\ ~ret.hit /\ ret.callGen >= 1
    /\ Fresh(store[ret.callGen - 1][ret.key], ret.key)
    /\ store[ret.callGen - 1][ret.key].storedAt < store[ret.callGen][ret.key].storedAt

(***************************************************************************)
(* Properties of the snapshot build and of the rankings.                   *)
(***************************************************************************)

Range(q) == {q[i] : i \in 1..Len(q)}

\* Position of a symbol in the symbols list, of a row in the loaded frame.
SymbolIndex(sym) == CHOOSE i \in 1..NumSymbols : symbols[i] = sym
RowIndex(r) == CHOOSE i \in 1..Len(df.rows) : df.rows[i] = r

\* The symbols whose processing raised nothing.
Succeeded == {symbols[i] : i \in {j \in 1..NumSymbols : upstream.per[j].kind = "ok"}}

\* C5: when the batch download returned, failures of any subset of the
\* symbols do not abort the build: a frame (not None) is returned and it
\* holds exactly the symbols whose processing succeeded.
C5_PerSymbolFailureNeverAborts ==
    (bpc = "done" /\ upstream.batch = "ok")
        => /\ ~df.isNone
           /\ {r.symbol : r \in Range(df.rows)} = Succeeded

\* The build of {A, B, C} with a failure for B only returned {A, C}.
C5_Witness ==
    /\ bpc = "done" /\ upstream.batch = "ok"
    /\ upstream.per[1].kind = "ok"
    /\ upstream.per[2].kind # "ok"
    /\ upstream.per[3].kind = "ok"
    /\ Len(df.rows) = 2
    /\ df.rows[1].symbol = symbols[1] /\ df.rows[2].symbol = symbols[3]

\* C6: when the batch download itself fails, load_stock_data reports failure
\* for the whole collection (None, no partial frame) and main shows the error
\* state and renders no cards and no chart.
C6_BatchFailureShowsError ==
    (bpc = "done" /\ upstream.batch = "raises")
        => /\ df = NoneDf
           /\ shown = "error"
           /\ top = <<>> /\ bottom = <<>> /\ chart = <<>>

\* A run whose download raised has ended in the error state.
C6_Witness ==
    bpc = "done" /\ upstream.batch = "raises" /\ df.isNone /\ shown = "error"

\* C7: a built frame holds at most one record per symbol, in the order of
\* the symbols list, and every record is the record of a symbol whose fetch
\* succeeded, carrying the fetched price: a failed symbol has no record.
C7_OneRecordPerSymbolInOrder ==
    (bpc = "done" /\ ~df.isNone)
        => /\ \A i, j \in 1..Len(df.rows) :
                i < j => SymbolIndex(df.rows[i].symbol) < SymbolIndex(df.rows[j].symbol)
           /\ \A r \in Range(df.rows) :
                /\ r.symbol \in Range(symbols)
                /\ upstream.per[SymbolIndex(r.symbol)].kind = "ok"
                /\ r.price = upstream.per[SymbolIndex(r.symbol)].close

\* The first symbol failed and the frame holds the others, in list order.
C7_Witness ==
    /\ bpc = "done" /\ ~df.isNone
    /\ upstream.per[1].kind # "ok"
    /\ Len(df.rows) = NumSymbols - 1
    /\ df.rows[1].symbol = symbols[2]

\* C8 as stated: a record whose prior-session close is zero or missing
\* carries no computed percent change (it is undefined, NaN), and otherwise
\* the sign of the change is that of price - prior close.
C8_NoChangeFromZeroOrMissingPrior ==
    bpc = "done" =>
        \A r \in Range(df.rows) :
            LET prior == upstream.per[SymbolIndex(r.symbol)].prev
                zero == Num(0, 1) IN
            IF IsNaN(prior) \/ float_eq(prior, zero)
            THEN IsNaN(r.change)
            ELSE /\ float_lt(zero, r.change) <=> float_lt(prior, r.price)
                 /\ float_lt(r.change, zero) <=> float_lt(r.price, prior)

\* Lexical order of the symbols.
LexOrder == <<"AAPL", "AMZN", "GOOGL", "META", "MSFT">>
LexRank(sym) == CHOOSE i \in 1..Len(LexOrder) : LexOrder[i] = sym

Tie(a, b) == (IsNaN(a.change) /\ IsNaN(b.change)) \/ float_eq(a.change, b.change)
AheadDesc(a, b) ==
    \/ ~IsNaN(a.change) /\ IsNaN(b.change)
    \/ float_lt(b.change, a.change)
    \/ Tie(a, b) /\ RowIndex(a) < RowIndex(b)
AheadAsc(a, b) ==
    \/ ~IsNaN(a.change) /\ IsNaN(b.change)
    \/ float_lt(a.change, b.change)
    \/ Tie(a, b) /\ RowIndex(a) < RowIndex(b)

Count(x, q) == Cardinality({i \in 1..Len(q) : q[i] = x})
IsPermutation(p, q) ==
    /\ Len(p) = Len(q)
    /\ \A x \in Range(p) \cup Range(q) : Count(x, p) = Count(x, q)

\* The rows of the frame that a ranking did not select.
Complement(q) == SelectSeq(df.rows, LAMBDA r : r \notin Range(q))

\* C10: nlargest(n) has min(n, |frame|) rows, and followed by the rows it did
\* not select it is a permutation of the frame; the Top Performers of main
\* (n = 10) are min(10, |frame|) rows.
C10_ClampedAndPermutation ==
    /\ rk >= 0 =>
          /\ Len(rtop) = Min(rk, Len(df.rows))
          /\ IsPermutation(rtop \o Complement(rtop), df.rows)
    /\ shown = "data" =>
          /\ Len(top) = Min(TopCount, Len(df.rows))
          /\ IsPermutation(top \o Complement(top), df.rows)

\* A ranking was asked for more rows than the frame has, and a ranking of a
\* frame with a row without a value was cut short of the frame.
C10_Witness ==
    /\ rk > Len(df.rows) /\ Len(df.rows) >= 2
    /\ Len(rtop) = Len(df.rows)
    /\ \E r \in Range(df.rows) : IsNaN(r.change)
    /\ shown = "data" /\ Len(top) = Len(df.rows)

(***************************************************************************)
(* Properties of the prediction page.                                      *)
(***************************************************************************)
LastDay(rows) == rows[Len(rows)].ds

\* C11: whenever a forecast is shown, the plotted view (the last
\* prediction_days points of the forecast) has exactly prediction_days points,
\* each strictly after the last day of the history, and the whole forecast
\* has one point per history row plus prediction_days.
C11_ForecastViewIsTheFuture ==
    pshown = "forecast" =>
        /\ Len(fview) = prediction_days
        /\ \A i \in 1..Len(fview) : fview[i] > LastDay(historical_data.rows)
        /\ Len(forecast.ds) = Len(historical_data.rows) + prediction_days

C11_Witness ==
    /\ pshown = "forecast"
    /\ prediction_days = SLIDER_MIN
    /\ Len(historical_data.rows) >= 3
    /\ \E i \in 1..Len(historical_data.rows) : ~historical_data.rows[i].ok
    /\ fview[1] = LastDay(historical_data.rows) + 1

\* C13: a history shorter than the minimum of 60 observations is never
\* fitted: the run ends in InsufficientDataError and no forecast exists.
C13_ShortHistoryRejected ==
    (ppc = "done" /\ ~NoData(historical_data) /\ Len(historical_data.rows) < 60) =>
        /\ ~trained
        /\ pshown = "InsufficientDataError"
        /\ forecast = NoForecast

\* C17: a failure reaches main as a value that tells its kind: a failed
\* batch is not the bare None, a history fetch that raised is neither the bare
\* None nor what the caller gets for a ticker without bars, and a failed fit
\* is not a propagated ValueError.
C17_FailuresAreTyped ==
    ppc = "done" =>
        /\ psnap.batch = "raises" => pdf # NoneDf
        /\ (~NoData(pdf) /\ phist.kind = "raises") =>
               /\ historical_data # NoneDf
               /\ historical_data # load_historical_data([kind |-> "ok", bars |-> <<>>])
        /\ ~forecast.raised

\* C20: the periods passed to train_prophet_model are an integer from 30 to
\* 365, and 365 when the slider was never moved.
C20_HorizonInRange ==
    trained =>
        /\ prediction_days \in 30..365
        /\ ~userChose => prediction_days = 365

C20_Witness ==
    /\ trained
    /\ ~userChose
    /\ pshown = "forecast"
    /\ Len(forecast.ds) = Len(historical_data.rows) + 365

(***************************************************************************)
(* Failed fetches and the cache.                                           *)
(***************************************************************************)
\* Entry e of key k is a stored failure (None) whose TTL has run out.
StaleFailure(e, k) == e.present /\ ~e.val.ok /\ now >= e.storedAt + TTL(k)

WaitsOn(w, c) == pc[w] = "miss" /\ pc[c] = "hung" /\ lock[cgen[w]][ckey[w]] = c

\* C14: a wrapped function that never returns is ended by a timeout: its own
\* call returns, and every session waiting for its compute lock returns too.
C14_HungCallTimesOut ==
    /\ \A c \in Callers : (pc[c] = "hung") ~> (pc[c] = "idle")
    /\ \A w \in Callers : \A c \in Callers : WaitsOn(w, c) ~> (pc[w] = "idle")

(***************************************************************************)
(* Properties of the overview page.                                        *)
(***************************************************************************)
\* The sum of f over the index set S.
RECURSIVE SumOver(_, _)
SumOver(S, f) ==
    IF S = {} THEN 0
    ELSE LET x == CHOOSE y \in S : TRUE IN f[x] + SumOver(S \ {x}, f)

\* The rows of the loaded frame that have a P/E ratio.
WithPE == {i \in 1..Len(odf.rows) : ~IsNaN(odf.rows[i].pe_ratio)}

\* C18: the Average P/E shown is the mean of the P/E ratios of exactly the
\* rows that have one; when no row has one it is NaN and is rendered as
\* 'nan', not as a number; Total Market Cap and Total Volume are the sums
\* over all rows of the frame.
C18_AggregatesOverTheFrame ==
    oshown = "data" =>
        /\ WithPE = {} => (IsNaN(avg_pe) /\ pe_text.nan)
        /\ WithPE # {} =>
              /\ avg_pe.k = "num" /\ ~pe_text.nan
              /\ avg_pe.n * Cardinality(WithPE)
                    = avg_pe.d * SumOver(WithPE, [i \in WithPE |-> odf.rows[i].pe_ratio.n])
        /\ total_volume
              = SumOver(1..Len(odf.rows), [i \in 1..Len(odf.rows) |-> odf.rows[i].volume])
        /\ total_market_cap
              = SumOver(1..Len(odf.rows), [i \in 1..Len(odf.rows) |-> odf.rows[i].market_cap])

\* Three rows, one without a P/E ratio and two with different ones.
C18_Witness ==
    /\ oshown = "data"
    /\ Len(odf.rows) = 3
    /\ Cardinality(WithPE) = 2
    /\ avg_pe = Num(3, 2)
    /\ pe_text = [nan |-> FALSE, hundredths |-> 150]
    /\ total_volume = 3
    /\ total_market_cap = 1

\* Position of a row of the loaded overview frame.
QuoteIndex(r) == CHOOSE i \in 1..Len(odf.rows) : odf.rows[i] = r

\* C19: get_most_active_stocks(df, n) has min(n, |df|) rows of the frame in
\* descending order of volume, no row left out has more volume than a row
\* returned, and returned rows of equal volume are in the order of the frame.
C19_MostActiveStableByVolume ==
    ak >= 0 =>
        /\ Len(active_stocks) = Min(ak, Len(odf.rows))
        /\ \A i \in 1..Len(active_stocks) :
              /\ active_stocks[i] \in Range(odf.rows)
              /\ \A j \in 1..Len(active_stocks) :
                    i < j =>
                        /\ active_stocks[i] # active_stocks[j]
                        /\ active_stocks[i].volume >= active_stocks[j].volume
                        /\ active_stocks[i].volume = active_stocks[j].volume
                              => QuoteIndex(active_stocks[i]) < QuoteIndex(active_stocks[j])
              /\ \A q \in Range(odf.rows) \ Range(active_stocks) :
                    active_stocks[i].volume >= q.volume

\* Two of three rows were asked for; the two returned have equal volume and
\* the row left out has less.
C19_Witness ==
    /\ ak = 2
    /\ Len(odf.rows) = 3
    /\ Len(active_stocks) = 2
    /\ active_stocks[1].volume = active_stocks[2].volume
    /\ odf.rows[1].volume < active_stocks[1].volume

(***************************************************************************)
(* Properties of the shared snapshot frame.                                *)
(***************************************************************************)
\* C15: every session that has read the entry holds the whole frame that
\* load_stock_data built for the upstream answer, equal to the stored entry
\* whatever the session or another one has done with its frame since; the
\* list under construction is never what a reader holds, and a stored entry
\* does not change.
C15_ReadersSeeTheStoredFrame ==
    /\ [](\A r \in Callers :
            rstate[r] # "none" =>
                /\ entry.present
                /\ rdf[r] = entry.val
                /\ rdf[r] = load_stock_data(supstream))
    /\ [][entry.present => entry' = entry]_vars

\* Both sessions read the same entry of three rows, ranked it and labelled
\* the rows of their rankings.
C15_Witness ==
    /\ \A r \in Callers : rstate[r] = "labelled"
    /\ Len(entry.val.rows) = 3
    /\ \A r \in Callers :
          /\ Len(rtopf[r]) = 3
          /\ rtopf[r][1].performance = "Top 10"
          /\ rdf[r] = entry.val

(***************************************************************************)
(* The guards of the prediction page.                                      *)
(***************************************************************************)
\* C24: train_prophet_model is called, and a forecast shown, only in a run
\* whose snapshot frame and whose history frame are both neither None nor
\* empty; a run that lacks either ends with its error message, with no model
\* fitted and no forecast.
C24_TrainingOnlyAfterBothLoads ==
    ppc = "done" =>
        /\ NoData(load_stock_data(psnap)) =>
              (pshown = "no_data_error" /\ ~trained /\ forecast = NoForecast /\ fview = <<>>)
        /\ (~NoData(load_stock_data(psnap)) /\ (phist.kind = "raises" \/ phist.bars = <<>>)) =>
              (pshown = "no_history_error" /\ ~trained /\ forecast = NoForecast /\ fview = <<>>)
        /\ trained => (~NoData(pdf) /\ ~NoData(historical_data))
        /\ pshown \in {"forecast", "exception"} => trained

\* The snapshot has rows, the ticker has no bars: the run ended with the
\* history error and nothing was fitted.
C24_Witness ==
    /\ ppc = "done"
    /\ Len(pdf.rows) = NumSymbols
    /\ phist.kind = "ok" /\ phist.bars = <<>>
    /\ selected_stock = symbols[2]
    /\ pshown = "no_history_error"
    /\ ~trained

(***************************************************************************)
(* Properties of the refresh loop.                                         *)
(***************************************************************************)
\* C21: every run of the dashboard's main, whatever its load returned, is
\* followed by a rerun of the script without the user doing anything.
C21_EveryRunIsFollowedByARerun ==
    (dpc \in {"countdown", "returned"}) ~> (dpc = "load")

(***************************************************************************)
(* Properties of the views' snapshot caches.                               *)
(***************************************************************************)
\* A live snapshot entry filled by a run of view w.
LiveFilledBy(w) ==
    \E k \in FunctionKeys : ViewLive(vstore[k], TTL_SNAPSHOT) /\ vstore[k].by = w

\* C22 as stated: a run of a view is served from the cache only by an entry
\* that a run of the same view fetched.
C22_ViewsNeverShareAnEntry ==
    vlast.hit => vlast.by = vlast.view

\* C22: a run of a view is served from the cache exactly when a live entry
\* was fetched by a view whose load_stock_data has the same source text (the
\* dashboard and the overview page share one entry, the comparison and the
\* prediction page have one each), so at most one live entry exists per
\* source text; the dashboard's cache clear leaves no snapshot entry of any
\* view and no history entry.
C22_ViewsShareBySourceText ==
    /\ [](\A k1 \in FunctionKeys : \A k2 \in FunctionKeys :
            (k1 # k2 /\ vstore[k1].present /\ vstore[k2].present)
                => SourceOf(vstore[k1].by) # SourceOf(vstore[k2].by))
    /\ [][\A v \in Views :
            ViewRun(v) =>
                /\ vlast'.hit <=> \E w \in Views : SourceOf(w) = SourceOf(v) /\ LiveFilledBy(w)
                /\ SourceOf(vlast'.by) = SourceOf(v)
                /\ \A w \in Views :
                      (SourceOf(w) # SourceOf(v) /\ LiveFilledBy(w)) => LiveFilledBy(w)']_vars
    /\ [][ViewRefreshNow =>
            /\ \A w \in Views : ~LiveFilledBy(w)'
            /\ \A k \in FunctionKeys : ~vstore'[k].present
            /\ ~vhist'.present]_vars

\* The overview page was served the entry that a run of the dashboard
\* fetched, while the comparison and the prediction page hold entries of
\* their own: three fetches filled the four views.
C22_Witness ==
    /\ vlast = [view |-> "overview", hit |-> TRUE, by |-> "dashboard", histHit |-> FALSE]
    /\ LiveFilledBy("comparison")
    /\ LiveFilledBy("prediction")
    /\ vhist.present

(***************************************************************************)
(* Properties of the history cache.                                        *)
(***************************************************************************)
\* A live series fetched for symbol s is stored.
LiveSeriesOf(s) == \E k \in HistoryKeys : SeriesLive(hstore[k]) /\ hstore[k].symbol = s

\* C23: a run for a symbol whose series was fetched less than 3600 s ago is
\* served that series without a fetch, whatever prediction period it or any
\* earlier run had; the series a run gets is always one fetched for its own
\* symbol, and the series of other symbols stay as they are; every run that
\* has a history fits the model again, even when the symbol and the period
\* are those of the run before.  (A step that leaves the tick count alone is
\* a run of the page, for the symbol hlast' names.)
C23_HistoryKeyedBySymbolOnly ==
    /\ [](hlast.histCalled => hlast.served = hlast.symbol)
    /\ [](\A k \in HistoryKeys : hstore[k].present => k[1] = hstore[k].symbol)
    /\ [][hticks' = hticks =>
            LET s == hlast'.symbol IN
            /\ (hlast'.histCalled /\ LiveSeriesOf(s))
                    => (hlast'.histHit /\ hstore' = hstore)
            /\ (hlast'.histCalled /\ ~LiveSeriesOf(s))
                    => (~hlast'.histHit /\ \E k \in HistoryKeys :
                            SeriesLive(hstore[k])' /\ hstore'[k].symbol = s)
            /\ hlast'.fitted <=> (hlast'.histCalled /\ \E k \in HistoryKeys :
                    hstore'[k].symbol = s /\ SeriesLive(hstore[k])' /\ hstore'[k].ok)
            /\ \A k \in HistoryKeys :
                    (hstore[k].present /\ hstore[k].symbol # s) => hstore'[k] = hstore[k]]_vars

\* The same stock as in the run before, another prediction period: the
\* history came from the cache and the model was fitted again.
C23_Witness ==
    /\ hlast.ran
    /\ hlast.periodOnly
    /\ hlast.periods = SLIDER_MIN
    /\ hlast.histHit
    /\ hlast.fitted
    /\ hnow > 0
    /\ \E t \in SymbolSet \ {hlast.symbol} : LiveSeriesOf(t)

====
